---- MODULE Spec2Model ----
(***************************************************************************)
(* The dimensional warehouse builder of the e-commerce data pipeline       *)
(* (scripts/transformation/load_warehouse.py): the production schema it    *)
(* reads, the warehouse tables it writes inside one transaction, and the   *)
(* build report.  Dates are day numbers.                                   *)
(***************************************************************************)
EXTENDS Integers, Sequences, FiniteSets, TLC

\* ------------------------------------------------------------------ bounds
MaxBuilds == 3
MaxDay == 2
\* the longest date range of a direct call of build_dim_date, in days after its start
MaxSpan == 3
\* the most rows of a table handed to a cleansing function
MaxRows == 2

\* SQL NULL (end_date of a current row, a payment_method_sk without a match)
NULL == -1

\* ------------------------------------------------------- input universes
CustomerIds == {"c1", "c2"}
ProductIds == {"p1"}
TxnIds == {"t1", "t2"}
\* transactions that only ever reach staging.transactions
StagedOnlyTxnIds == {"t3", "t4"}
ItemIds == {"i1", "i2", "i3"}

UPI == <<"U", "P", "I">>
NetBanking == <<"N", "e", "t", " ", "B", "a", "n", "k", "i", "n", "g">>
\* a label of a hand-written file: same letters, other case
NetBankingLowerCase == <<"n", "e", "t", " ", "b", "a", "n", "k", "i", "n", "g">>
CreditCard == <<"C", "r", "e", "d", "i", "t", " ", "C", "a", "r", "d">>
DebitCard == <<"D", "e", "b", "i", "t", " ", "C", "a", "r", "d">>
CashOnDelivery ==
    <<"C", "a", "s", "h", " ", "o", "n", " ", "D", "e", "l", "i", "v", "e", "r", "y">>

\* the rows the upstream pipeline can deliver, by natural key
TxnRow ==
    [t \in TxnIds \cup StagedOnlyTxnIds |->
        CASE t = "t1" ->
                [transaction_id |-> "t1", customer_id |-> "c1", transaction_date |-> 1,
                 payment_method |-> UPI, total_amount |-> 50]
          [] t = "t2" ->
                [transaction_id |-> "t2", customer_id |-> "c2", transaction_date |-> 2,
                 payment_method |-> NetBanking, total_amount |-> 20]
          [] t = "t3" ->
                [transaction_id |-> "t3", customer_id |-> "c1", transaction_date |-> 2,
                 payment_method |-> NetBankingLowerCase, total_amount |-> 10]
          [] OTHER ->
                [transaction_id |-> "t4", customer_id |-> "c2", transaction_date |-> 1,
                 payment_method |-> CashOnDelivery, total_amount |-> 10]]

ItemRow ==
    [i \in ItemIds |->
        CASE i = "i1" -> [item_id |-> "i1", transaction_id |-> "t1", product_id |-> "p1",
                          quantity |-> 2, line_total |-> 30]
          [] i = "i2" -> [item_id |-> "i2", transaction_id |-> "t2", product_id |-> "p1",
                          quantity |-> 1, line_total |-> 20]
          [] OTHER    -> [item_id |-> "i3", transaction_id |-> "t1", product_id |-> "p1",
                          quantity |-> 1, line_total |-> 20]]

\* the transaction files the generator can have written: none, or both transactions
CsvBatches == {{}, TxnIds}

\* the customers whose is_active the source system flips, and how a customer arrives
Deactivated == {"c1"}
ArrivesAs(c) == IF c \in Deactivated THEN {"active", "inactive"} ELSE {"active"}

CustomerEmail == [c \in CustomerIds |-> IF c = "c1" THEN "c1@example.com" ELSE "c2@example.com"]
ProductName == [p \in ProductIds |-> "Books Product 1"]

\* ------------------------------------------------------------------ state
VARIABLES
    prodCust,    \* production.customers: business key -> "none" | "active" | "inactive"
    prodProd,    \* production.products, likewise
    prodTxn,     \* production.transactions (natural keys present)
    prodItems,   \* production.transaction_items (natural keys present)
    stgTxn,      \* staging.transactions (natural keys present)
    today,       \* CURRENT_DATE
    wh,          \* the committed warehouse tables
    tx,          \* the tables as seen inside the open transaction
    pc,          \* position of load_warehouse.main
    build_log,   \* the report being collected by main
    outcome,     \* how the invocation of main ended; rerun: it started with production
                 \* unchanged since the last committed build
    reportFile,  \* data/processed/warehouse_build_report.json
    whStart,     \* the committed tables when the running (or last) build started
    dirty,       \* production changed since the last committed build
    nBuilds,     \* builds committed so far
    call,        \* a builder function called directly on the connection: its
                 \* arguments and the value it returned
    execution_log,    \* PipelineOrchestrator.execution_log
    all_success,      \* the local of execute_pipeline
    opc,              \* position of the orchestrator
    current,          \* the step run_step is called for (index into PipelineSteps)
    transform,        \* staging_to_production.main: its position and its results
    started,          \* the steps started so far, in order
    run_step_results, \* what the calls of run_step returned, in order
    saved_log,        \* data/processed/pipeline_execution_log.json
    exit_code         \* the exit code of the process

vars == <<prodCust, prodProd, prodTxn, prodItems, stgTxn, today, wh, tx, pc,
          build_log, outcome, reportFile, whStart, dirty, nBuilds, call,
          execution_log, all_success, opc, current, transform, started,
          run_step_results, saved_log, exit_code>>

orchVars == <<execution_log, all_success, opc, current, transform, started,
              run_step_results, saved_log, exit_code>>
prodVars == <<prodCust, prodProd, prodTxn, prodItems, stgTxn>>
buildVars == <<wh, tx, pc, build_log, outcome, reportFile, whStart, nBuilds, call>>

\* ---------------------------------------------------------------- helpers
Max(S) == CHOOSE x \in S : \A y \in S : y <= x
Min(S) == CHOOSE x \in S : \A y \in S : x <= y

\* SUM(field) over a set of rows
RECURSIVE SumOf(_, _)
SumOf(S, field) ==
    IF S = {} THEN 0
    ELSE LET x == CHOOSE y \in S : TRUE IN x[field] + SumOf(S \ {x}, field)

\* the next value of a serial surrogate-key column
NextSk(sks) == IF sks = {} THEN 1 ELSE Max(sks) + 1

\* the surrogate keys handed to the rows inserted by one statement
Numbered(S, base) ==
    CHOOSE f \in [S -> base .. (base + Cardinality(S) - 1)] :
        \A a, b \in S : a # b => f[a] # f[b]

EmptyWarehouse ==
    [dim_customers |-> {}, dim_products |-> {}, dim_date |-> {}, dim_payment_method |-> {},
     fact_sales |-> {}, agg_daily_sales |-> {}, agg_product_sales |-> {},
     agg_customer_lifetime |-> {}]

EmptyLog ==
    [warehouse_build_timestamp |-> NULL, dimensions_built |-> <<>>, fact_tables_built |-> <<>>, aggregates_built |-> <<>>,
     scd_updates |-> <<>>]

\* d[k] = v added to the mapping d
Put(d, k, v) == [x \in DOMAIN d \cup {k} |-> IF x = k THEN v ELSE d[x]]

\* ------------------------------------------------- payment-method labels
\* LOWER(REPLACE(c, ' ', '_')) on one character
UpperCase ==
    <<"A", "B", "C", "D", "E", "F", "G", "H", "I", "J", "K", "L", "M",
      "N", "O", "P", "Q", "R", "S", "T", "U", "V", "W", "X", "Y", "Z">>
LowerCase ==
    <<"a", "b", "c", "d", "e", "f", "g", "h", "i", "j", "k", "l", "m",
      "n", "o", "p", "q", "r", "s", "t", "u", "v", "w", "x", "y", "z">>

\* the normalisation with LOWER only, REPLACE left out
NormCharLowerOnly(c) ==
    IF \E k \in 1 .. Len(UpperCase) : UpperCase[k] = c
    THEN LowerCase[CHOOSE k \in 1 .. Len(UpperCase) : UpperCase[k] = c]
    ELSE c

NormChar(c) ==
    IF c = " " THEN "_"
    ELSE IF \E k \in 1 .. Len(UpperCase) : UpperCase[k] = c
         THEN LowerCase[CHOOSE k \in 1 .. Len(UpperCase) : UpperCase[k] = c]
         ELSE c

PaymentMethodId(label) == [k \in 1 .. Len(label) |-> NormChar(label[k])]

PaymentCategory(label) ==
    CASE label \in {CreditCard, DebitCard} -> "Card"
      [] label = UPI -> "Digital"
      [] label = NetBanking -> "Digital"
      [] label = CashOnDelivery -> "Cash"
      [] OTHER -> "Other"

\* ---------------------------------------------------- the SQL statements
\* ON CONFLICT DO NOTHING on a dimension: a row with the business key exists
CustomerKeyConflict(dim, c) == \E r \in dim : r.customer_id = c
ProductKeyConflict(dim, p) == \E r \in dim : r.product_id = p

\* the INSERT without its ON CONFLICT DO NOTHING taking effect
NewDimCustomersAlways(dim, cust, day) ==
    LET keys == {c \in CustomerIds : cust[c] = "active"}
        sk == Numbered(keys, NextSk({r.customer_sk : r \in dim}))
    IN {[customer_sk |-> sk[c], customer_id |-> c, email |-> CustomerEmail[c],
         is_current |-> TRUE, effective_date |-> day, end_date |-> NULL] : c \in keys}

\* INSERT INTO warehouse.dim_customers ... WHERE is_active = TRUE ON CONFLICT DO NOTHING
NewDimCustomers(dim, cust, day) ==
    LET keys == {c \in CustomerIds : cust[c] = "active" /\ ~CustomerKeyConflict(dim, c)}
        sk == Numbered(keys, NextSk({r.customer_sk : r \in dim}))
    IN {[customer_sk |-> sk[c], customer_id |-> c, email |-> CustomerEmail[c],
         is_current |-> TRUE, effective_date |-> day, end_date |-> NULL] : c \in keys}

\* the INSERT without its WHERE is_active = TRUE
NewDimProductsAnyStatus(dim, prod, day) ==
    LET keys == {p \in ProductIds : prod[p] # "none" /\ ~ProductKeyConflict(dim, p)}
        sk == Numbered(keys, NextSk({r.product_sk : r \in dim}))
    IN {[product_sk |-> sk[p], product_id |-> p, product_name |-> ProductName[p],
         is_current |-> TRUE, effective_date |-> day, end_date |-> NULL] : p \in keys}

\* INSERT INTO warehouse.dim_products ... WHERE is_active = TRUE ON CONFLICT DO NOTHING
NewDimProducts(dim, prod, day) ==
    LET keys == {p \in ProductIds : prod[p] = "active" /\ ~ProductKeyConflict(dim, p)}
        sk == Numbered(keys, NextSk({r.product_sk : r \in dim}))
    IN {[product_sk |-> sk[p], product_id |-> p, product_name |-> ProductName[p],
         is_current |-> TRUE, effective_date |-> day, end_date |-> NULL] : p \in keys}

\* dates are numbered by day, the date numbered 1 being Monday 2024-01-01
Epoch == [year |-> 2024, month |-> 1, day |-> 1]

IsLeapYear(y) == (y % 4 = 0 /\ y % 100 # 0) \/ y % 400 = 0

DaysInMonth(y, m) ==
    CASE m \in {4, 6, 9, 11} -> 30
      [] m = 2 -> IF IsLeapYear(y) THEN 29 ELSE 28
      [] OTHER -> 31

\* the date that is the n-th day counted from the first of month m of year y
RECURSIVE CivilFrom(_, _, _)
CivilFrom(y, m, n) ==
    IF n <= DaysInMonth(y, m) THEN [year |-> y, month |-> m, day |-> n]
    ELSE IF m = 12 THEN CivilFrom(y + 1, 1, n - DaysInMonth(y, m))
         ELSE CivilFrom(y, m + 1, n - DaysInMonth(y, m))

\* Timestamp.year, .month, .day of the date numbered d
CivilDate(d) == CivilFrom(Epoch.year, Epoch.month, d)

\* Timestamp.dayofweek: Monday is 0, Sunday is 6
DayOfWeek(d) == (d - 1) % 7

\* the date range with its end left out
NewDimDateExclusive(dim, start_date, end_date) ==
    LET base == NextSk({r.date_sk : r \in dim})
    IN {[date_sk |-> base + (d - start_date), date_id |-> d,
         day_of_month |-> CivilDate(d).day, day_of_week |-> DayOfWeek(d) + 1,
         month |-> CivilDate(d).month, quarter |-> (CivilDate(d).month - 1) \div 3 + 1,
         year |-> CivilDate(d).year, is_weekend |-> DayOfWeek(d) >= 5]
        : d \in start_date .. (end_date - 1)}

\* pd.date_range(start, end, freq='D') appended to dim_date with fresh date_sk
NewDimDate(dim, start_date, end_date) ==
    LET base == NextSk({r.date_sk : r \in dim})
    IN {[date_sk |-> base + (d - start_date), date_id |-> d,
         day_of_month |-> CivilDate(d).day, day_of_week |-> DayOfWeek(d) + 1,
         month |-> CivilDate(d).month, quarter |-> (CivilDate(d).month - 1) \div 3 + 1,
         year |-> CivilDate(d).year, is_weekend |-> DayOfWeek(d) >= 5]
        : d \in start_date .. end_date}

\* SELECT DISTINCT id, name, category FROM staging.transactions
PaymentCandidates(stg) ==
    {[payment_method_id |-> PaymentMethodId(TxnRow[t].payment_method),
      payment_method_name |-> TxnRow[t].payment_method,
      category |-> PaymentCategory(TxnRow[t].payment_method)] : t \in stg}

\* the ids of the candidates, present in the table or not
NewPaymentIdsAll(dim, stg) == {c.payment_method_id : c \in PaymentCandidates(stg)}

\* ON CONFLICT (payment_method_id) DO NOTHING: the ids that get a row
NewPaymentIds(dim, stg) ==
    {c.payment_method_id : c \in PaymentCandidates(stg)}
        \ {r.payment_method_id : r \in dim}

\* the rows of one INSERT into dim_payment_method, pick[id] being the candidate
\* that reaches the table first for its id
NewDimPaymentMethod(dim, pick) ==
    LET ids == DOMAIN pick
        sk == Numbered(ids, NextSk({r.payment_method_sk : r \in dim}))
    IN {[payment_method_sk |-> sk[id], payment_method_id |-> id,
         payment_method_name |-> pick[id].payment_method_name,
         category |-> pick[id].category] : id \in ids}

\* the payment-method join as an INNER JOIN
PaymentMethodSksInnerJoin(dim, label) ==
    {r.payment_method_sk : r \in {q \in dim : q.payment_method_id = PaymentMethodId(label)}}

\* LEFT JOIN warehouse.dim_payment_method: the matching keys, or NULL
PaymentMethodSks(dim, label) ==
    LET m == {r.payment_method_sk : r \in {q \in dim : q.payment_method_id = PaymentMethodId(label)}}
    IN IF m = {} THEN {NULL} ELSE m

\* the join without its is_current condition
AnyCustomerRows(dim, c) == {r \in dim : r.customer_id = c}

\* INNER JOIN warehouse.dim_customers dc ON ... AND dc.is_current = TRUE
CurrentCustomerRows(dim, c) == {r \in dim : r.customer_id = c /\ r.is_current}
\* the product join without its is_current condition
AnyProductRows(dim, p) == {r \in dim : r.product_id = p}

\* INNER JOIN warehouse.dim_products dp ON ... AND dp.is_current = TRUE
CurrentProductRows(dim, p) == {r \in dim : r.product_id = p /\ r.is_current}

\* the insert without its NOT EXISTS guard
NeverLoaded(fact, i) == FALSE

\* WHERE NOT EXISTS (SELECT 1 FROM warehouse.fact_sales fs WHERE fs.item_id = ti.item_id)
AlreadyLoaded(fact, i) == \E f \in fact : f.item_id = i

\* the rows of the INSERT ... SELECT of build_fact_sales
NewFactSales(w, txns, items) ==
    UNION {
        LET ti == ItemRow[i]
            t == TxnRow[ti.transaction_id]
        IN {[transaction_id |-> t.transaction_id, item_id |-> i,
             customer_sk |-> dc.customer_sk, product_sk |-> dp.product_sk,
             date_sk |-> dd.date_sk, payment_method_sk |-> pm,
             quantity |-> ti.quantity, line_total |-> ti.line_total,
             transaction_total |-> t.total_amount] :
                <<dc, dp, dd, pm>> \in
                    CurrentCustomerRows(w.dim_customers, t.customer_id)
                    \X CurrentProductRows(w.dim_products, ti.product_id)
                    \X {d \in w.dim_date : d.date_id = t.transaction_date}
                    \X PaymentMethodSks(w.dim_payment_method, t.payment_method)}
        : i \in {j \in items : ItemRow[j].transaction_id \in txns
                                /\ ~AlreadyLoaded(w.fact_sales, j)}}

\* the rollup with COUNT(*) in place of COUNT(DISTINCT transaction_id)
RollupCountingRows(rows) ==
    [total_sales |-> SumOf(rows, "line_total"),
     total_units_sold |-> SumOf(rows, "quantity"),
     transaction_count |-> Cardinality(rows)]

\* SUM / COUNT(DISTINCT) over the fact rows of one group
Rollup(rows) ==
    [total_sales |-> SumOf(rows, "line_total"),
     total_units_sold |-> SumOf(rows, "quantity"),
     transaction_count |-> Cardinality({f.transaction_id : f \in rows})]

\* INSERT INTO warehouse.agg_daily_sales ... GROUP BY fs.date_sk ON CONFLICT DO NOTHING
NewAggDailySales(agg, fact) ==
    {LET rows == {f \in fact : f.date_sk = k}
         r == Rollup(rows)
     IN [date_sk |-> k, total_sales |-> r.total_sales,
         total_units_sold |-> r.total_units_sold,
         transaction_count |-> r.transaction_count,
         customer_count |-> Cardinality({f.customer_sk : f \in rows})]
     : k \in {f.date_sk : f \in fact} \ {a.date_sk : a \in agg}}

\* the INSERT without its ON CONFLICT DO NOTHING taking effect
NewAggProductSalesAlways(agg, fact) ==
    {LET r == Rollup({f \in fact : f.product_sk = k})
     IN [product_sk |-> k, total_sales |-> r.total_sales,
         total_units_sold |-> r.total_units_sold,
         transaction_count |-> r.transaction_count]
     : k \in {f.product_sk : f \in fact}}

\* INSERT INTO warehouse.agg_product_sales ... GROUP BY fs.product_sk ON CONFLICT DO NOTHING
NewAggProductSales(agg, fact) ==
    {LET r == Rollup({f \in fact : f.product_sk = k})
     IN [product_sk |-> k, total_sales |-> r.total_sales,
         total_units_sold |-> r.total_units_sold,
         transaction_count |-> r.transaction_count]
     : k \in {f.product_sk : f \in fact} \ {a.product_sk : a \in agg}}

\* INSERT INTO warehouse.agg_customer_lifetime ... JOIN dim_date ... GROUP BY fs.customer_sk
NewAggCustomerLifetime(agg, fact, dates) ==
    {LET rows == {f \in fact : f.customer_sk = k /\ \E d \in dates : d.date_sk = f.date_sk}
         r == Rollup(rows)
         days == {d.date_id : d \in {e \in dates : \E f \in rows : f.date_sk = e.date_sk}}
     IN [customer_sk |-> k, total_spent |-> r.total_sales,
         total_units_purchased |-> r.total_units_sold,
         transaction_count |-> r.transaction_count,
         first_purchase_date |-> Min(days), last_purchase_date |-> Max(days)]
     : k \in {f.customer_sk : f \in {g \in fact : \E d \in dates : d.date_sk = g.date_sk}}
              \ {a.customer_sk : a \in agg}}

\* UPDATE warehouse.dim_customers SET is_current = FALSE, end_date = CURRENT_DATE - 1 day
\* WHERE is_current = TRUE AND customer_id IN (... WHERE is_active = FALSE)
RetiredCustomersAnyVersion(dim, cust) == {r \in dim : cust[r.customer_id] = "inactive"}
RetiredCustomers(dim, cust) == {r \in dim : r.is_current /\ cust[r.customer_id] = "inactive"}
RetiredProducts(dim, prod) == {r \in dim : r.is_current /\ prod[r.product_id] = "inactive"}

\* end_date = today, as the docstring of apply_scd_type2 has it
RetireToday(r, day) == [r EXCEPT !.is_current = FALSE, !.end_date = day]

\* the retirement without its end_date assignment
RetireFlagOnly(r, day) == [r EXCEPT !.is_current = FALSE]

\* SET is_current = FALSE, end_date = CURRENT_DATE - INTERVAL '1 day'
Retire(r, day) == [r EXCEPT !.is_current = FALSE, !.end_date = day - 1]

\* retirement by DELETE in place of UPDATE
apply_scd_type2_deleting(dimension_name, w, cust, prod, day) ==
    CASE dimension_name = "dim_customers" ->
            LET hit == RetiredCustomers(w.dim_customers, cust)
            IN [tables |-> [w EXCEPT !.dim_customers = w.dim_customers \ hit],
                result |-> [dimension |-> dimension_name,
                            records_updated |-> Cardinality(hit), status |-> "success"]]
      [] dimension_name = "dim_products" ->
            LET hit == RetiredProducts(w.dim_products, prod)
            IN [tables |-> [w EXCEPT !.dim_products = w.dim_products \ hit],
                result |-> [dimension |-> dimension_name,
                            records_updated |-> Cardinality(hit), status |-> "success"]]
      [] OTHER ->
            [tables |-> w,
             result |-> [dimension |-> dimension_name, records_updated |-> 0,
                         status |-> "success"]]

\* apply_scd_type2(dimension_name, connection): the table after it and its result
apply_scd_type2(dimension_name, w, cust, prod, day) ==
    CASE dimension_name = "dim_customers" ->
            LET hit == RetiredCustomers(w.dim_customers, cust)
            IN [tables |-> [w EXCEPT !.dim_customers =
                                (w.dim_customers \ hit) \cup {Retire(r, day) : r \in hit}],
                result |-> [dimension |-> dimension_name,
                            records_updated |-> Cardinality(hit), status |-> "success"]]
      [] dimension_name = "dim_products" ->
            LET hit == RetiredProducts(w.dim_products, prod)
            IN [tables |-> [w EXCEPT !.dim_products =
                                (w.dim_products \ hit) \cup {Retire(r, day) : r \in hit}],
                result |-> [dimension |-> dimension_name,
                            records_updated |-> Cardinality(hit), status |-> "success"]]
      [] OTHER ->
            [tables |-> w,
             result |-> [dimension |-> dimension_name, records_updated |-> 0,
                         status |-> "success"]]

\* ------------------------------------------------------------------ Init
NoOutcome == [status |-> "none", cause |-> "none", returned |-> EmptyLog, rerun |-> FALSE]

NoCall == [fn |-> "none", args |-> <<>>, returned |-> NULL]

\* PipelineOrchestrator.__init__
NewExecutionLog ==
    [steps |-> <<>>, overall_status |-> "pending", errors |-> <<>>, pipeline_end |-> NULL]

\* data/processed/pipeline_execution_log.json before the orchestrator wrote it
NoSavedLog == [state |-> "absent", log |-> NewExecutionLog]

NoTransform == [pc |-> "idle", results |-> <<>>, status |-> "none"]

Init ==
    /\ call = NoCall
    /\ execution_log = NewExecutionLog
    /\ all_success = TRUE
    /\ opc = "new"
    /\ current = 0
    /\ transform = NoTransform
    /\ started = <<>>
    /\ run_step_results = <<>>
    /\ saved_log = NoSavedLog
    /\ exit_code = NULL
    /\ prodCust = [c \in CustomerIds |-> "none"]
    /\ prodProd = [p \in ProductIds |-> "none"]
    /\ prodTxn = {}
    /\ prodItems = {}
    /\ stgTxn = {}
    /\ today = 1
    /\ wh = EmptyWarehouse
    /\ tx = EmptyWarehouse
    /\ pc = "idle"
    /\ build_log = EmptyLog
    /\ outcome = NoOutcome
    /\ reportFile = EmptyLog
    /\ whStart = EmptyWarehouse
    /\ dirty = TRUE
    /\ nBuilds = 0

\* ------------------------------------------- the upstream pipeline, the clock
Changed ==
    /\ pc = "idle"
    /\ dirty' = TRUE
    /\ UNCHANGED <<today, buildVars, orchVars>>

AddCustomer(c, a) ==
    /\ prodCust[c] = "none"
    /\ prodCust' = [prodCust EXCEPT ![c] = a]
    /\ Changed
    /\ UNCHANGED <<prodProd, prodTxn, prodItems, stgTxn>>

SetCustomerActive(c) ==
    /\ prodCust[c] # "none"
    /\ prodCust' = [prodCust EXCEPT ![c] = IF @ = "active" THEN "inactive" ELSE "active"]
    /\ Changed
    /\ UNCHANGED <<prodProd, prodTxn, prodItems, stgTxn>>

AddProduct(p, a) ==
    /\ prodProd[p] = "none"
    /\ prodProd' = [prodProd EXCEPT ![p] = a]
    /\ Changed
    /\ UNCHANGED <<prodCust, prodTxn, prodItems, stgTxn>>

SetProductActive(p) ==
    /\ prodProd[p] # "none"
    /\ prodProd' = [prodProd EXCEPT ![p] = IF @ = "active" THEN "inactive" ELSE "active"]
    /\ Changed
    /\ UNCHANGED <<prodCust, prodTxn, prodItems, stgTxn>>

\* ingest_to_staging.main: staging is truncated and reloaded from the CSV files
Ingest(S) ==
    /\ pc = "idle"
    /\ S # stgTxn
    /\ stgTxn' = S
    /\ UNCHANGED <<prodCust, prodProd, prodTxn, prodItems, today, buildVars, dirty, orchVars>>

\* staging_to_production.main: the staged transactions and their line items are
\* appended to production
Transform ==
    /\ stgTxn # {}
    /\ stgTxn \cap prodTxn = {}
    /\ prodTxn' = prodTxn \cup stgTxn
    /\ prodItems' = prodItems \cup {i \in ItemIds : ItemRow[i].transaction_id \in stgTxn}
    /\ Changed
    /\ UNCHANGED <<prodCust, prodProd, stgTxn>>

Tick ==
    /\ pc = "idle"
    /\ today < MaxDay
    /\ today' = today + 1
    /\ UNCHANGED <<prodVars, buildVars, dirty, orchVars>>

\* -------------------------------------------------- load_warehouse.main
\* the statements of main, in the order main issues them
\* the aggregates built before the fact table is loaded
BuildOrderAggregatesFirst ==
    <<"dim_customers", "dim_products", "dim_date", "dim_payment_method",
      "agg_daily_sales", "agg_product_sales", "agg_customer_lifetime", "fact_sales",
      "scd_customers", "scd_products", "commit", "report">>

BuildOrder ==
    <<"dim_customers", "dim_products", "dim_date", "dim_payment_method", "fact_sales",
      "agg_daily_sales", "agg_product_sales", "agg_customer_lifetime",
      "scd_customers", "scd_products", "commit", "report">>

StepIndex(s) == CHOOSE k \in 1 .. Len(BuildOrder) : BuildOrder[k] = s
NextStep(s) == BuildOrder[StepIndex(s) + 1]

\* the statements that run on the connection, the commit included
StoreSteps == {BuildOrder[k] : k \in 1 .. Len(BuildOrder) - 1}

\* statements committed one by one: the work of the failed build stays
RollbackKeepsWork(committed, working) == working

\* what the store holds once `with engine.begin()` is left by an exception
Rollback(committed, working) == committed

Step(s) ==
    /\ pc = s
    /\ pc' = NextStep(s)
    /\ UNCHANGED <<prodVars, today, wh, outcome, reportFile, whStart, dirty, nBuilds, call, orchVars>>

Begin ==
    /\ pc = "idle"
    /\ nBuilds < MaxBuilds
    /\ pc' = BuildOrder[1]
    /\ tx' = wh
    /\ whStart' = wh
    /\ build_log' = [EmptyLog EXCEPT !.warehouse_build_timestamp = today]
    /\ outcome' = [status |-> "running", cause |-> "none", returned |-> EmptyLog,
                   rerun |-> ~dirty]
    /\ UNCHANGED <<prodVars, today, wh, reportFile, dirty, nBuilds, call, orchVars>>

DimCustomers ==
    /\ Step("dim_customers")
    /\ LET new == NewDimCustomers(tx.dim_customers, prodCust, today)
       IN /\ tx' = [tx EXCEPT !.dim_customers = @ \cup new]
          /\ build_log' = [build_log EXCEPT !.dimensions_built =
                                Put(@, "dim_customers", Cardinality(new))]

DimProducts ==
    /\ Step("dim_products")
    /\ LET new == NewDimProducts(tx.dim_products, prodProd, today)
       IN /\ tx' = [tx EXCEPT !.dim_products = @ \cup new]
          /\ build_log' = [build_log EXCEPT !.dimensions_built =
                                Put(@, "dim_products", Cardinality(new))]

\* SELECT MIN(transaction_date), MAX(transaction_date); build_dim_date(min, max)
DimDate ==
    /\ prodTxn # {}
    /\ Step("dim_date")
    /\ LET days == {TxnRow[t].transaction_date : t \in prodTxn}
           new == NewDimDate(tx.dim_date, Min(days), Max(days))
       IN /\ tx' = [tx EXCEPT !.dim_date = @ \cup new]
          /\ build_log' = [build_log EXCEPT !.dimensions_built =
                                Put(@, "dim_date", Cardinality(new))]

DimPaymentMethod ==
    /\ Step("dim_payment_method")
    /\ \E pick \in [NewPaymentIds(tx.dim_payment_method, stgTxn) -> PaymentCandidates(stgTxn)] :
        /\ \A id \in DOMAIN pick : pick[id].payment_method_id = id
        /\ LET new == NewDimPaymentMethod(tx.dim_payment_method, pick)
           IN /\ tx' = [tx EXCEPT !.dim_payment_method = @ \cup new]
              /\ build_log' = [build_log EXCEPT !.dimensions_built =
                                    Put(@, "dim_payment_method", Cardinality(new))]

FactSales ==
    /\ Step("fact_sales")
    /\ LET new == NewFactSales(tx, prodTxn, prodItems)
       IN /\ tx' = [tx EXCEPT !.fact_sales = @ \cup new]
          /\ build_log' = [build_log EXCEPT !.fact_tables_built =
                                Put(@, "fact_sales", Cardinality(new))]

AggDailySales ==
    /\ Step("agg_daily_sales")
    /\ LET new == NewAggDailySales(tx.agg_daily_sales, tx.fact_sales)
       IN /\ tx' = [tx EXCEPT !.agg_daily_sales = @ \cup new]
          /\ build_log' = [build_log EXCEPT !.aggregates_built =
                                Put(@, "agg_daily_sales", Cardinality(new))]

AggProductSales ==
    /\ Step("agg_product_sales")
    /\ LET new == NewAggProductSales(tx.agg_product_sales, tx.fact_sales)
       IN /\ tx' = [tx EXCEPT !.agg_product_sales = @ \cup new]
          /\ build_log' = [build_log EXCEPT !.aggregates_built =
                                Put(@, "agg_product_sales", Cardinality(new))]

AggCustomerLifetime ==
    /\ Step("agg_customer_lifetime")
    /\ LET new == NewAggCustomerLifetime(tx.agg_customer_lifetime, tx.fact_sales, tx.dim_date)
       IN /\ tx' = [tx EXCEPT !.agg_customer_lifetime = @ \cup new]
          /\ build_log' = [build_log EXCEPT !.aggregates_built =
                                Put(@, "agg_customer_lifetime", Cardinality(new))]

ScdCustomers ==
    /\ Step("scd_customers")
    /\ LET r == apply_scd_type2("dim_customers", tx, prodCust, prodProd, today)
       IN /\ tx' = r.tables
          /\ build_log' = [build_log EXCEPT !.scd_updates = Put(@, "dim_customers", r.result)]

ScdProducts ==
    /\ Step("scd_products")
    /\ LET r == apply_scd_type2("dim_products", tx, prodCust, prodProd, today)
       IN /\ tx' = r.tables
          /\ build_log' = [build_log EXCEPT !.scd_updates = Put(@, "dim_products", r.result)]

\* leaving `with engine.begin()` normally commits the transaction
Commit ==
    /\ pc = "commit"
    /\ pc' = "report"
    /\ wh' = tx
    /\ dirty' = FALSE
    /\ nBuilds' = nBuilds + 1
    /\ UNCHANGED <<prodVars, today, tx, build_log, outcome, reportFile, whStart, call, orchVars>>

\* the report is written to the file and returned
WriteReport ==
    /\ pc = "report"
    /\ pc' = "done"
    /\ reportFile' = build_log
    /\ outcome' = [outcome EXCEPT !.status = "success", !.returned = build_log]
    /\ build_log' = EmptyLog
    /\ UNCHANGED <<prodVars, today, wh, tx, whStart, dirty, nBuilds, call, orchVars>>

Raise(cause) ==
    /\ pc' = "done"
    /\ outcome' = [outcome EXCEPT !.status = "raised", !.cause = cause]
    /\ build_log' = EmptyLog
    /\ UNCHANGED <<prodVars, today, reportFile, whStart, dirty, nBuilds, call, orchVars>>

\* a statement (or the commit) fails at the store: the exception leaves the with block
StoreFailure ==
    /\ pc \in StoreSteps
    /\ wh' = Rollback(wh, tx)
    /\ UNCHANGED tx
    /\ Raise("store")

\* no transaction: MIN/MAX are NULL and pd.date_range("None", "None") raises
EmptyDateRange ==
    /\ pc = "dim_date"
    /\ prodTxn = {}
    /\ wh' = Rollback(wh, tx)
    /\ UNCHANGED tx
    /\ Raise("input")

\* mkdir / open / json.dump fails after the transaction was committed
ReportFailure ==
    /\ pc = "report"
    /\ UNCHANGED <<wh, tx>>
    /\ Raise("io")

\* the caller has the result; the next invocation starts from the committed tables
Return ==
    /\ pc = "done"
    /\ pc' = "idle"
    /\ outcome' = NoOutcome
    /\ whStart' = wh
    /\ tx' = wh
    /\ reportFile' = EmptyLog
    /\ UNCHANGED <<prodVars, today, wh, build_log, dirty, nBuilds, call, orchVars>>

Next ==
    \/ \E c \in CustomerIds : \E a \in ArrivesAs(c) : AddCustomer(c, a)
    \/ \E c \in Deactivated : SetCustomerActive(c)
    \/ \E p \in ProductIds, a \in {"active", "inactive"} : AddProduct(p, a)
    \/ \E p \in ProductIds : SetProductActive(p)
    \/ \E S \in CsvBatches : Ingest(S)
    \/ Transform
    \/ Tick
    \/ Begin
    \/ DimCustomers
    \/ DimProducts
    \/ DimDate
    \/ DimPaymentMethod
    \/ FactSales
    \/ AggDailySales
    \/ AggProductSales
    \/ AggCustomerLifetime
    \/ ScdCustomers
    \/ ScdProducts
    \/ Commit
    \/ WriteReport
    \/ StoreFailure
    \/ EmptyDateRange
    \/ ReportFailure
    \/ Return

Spec == Init /\ [][Next]_vars

\* --------------------------------- the builder functions called one by one
\* the first days of the ranges build_dim_date is called with: 2024-01-01,
\* 2024-02-28, 2024-03-29 and 2024-12-30
RangeStarts == {1, 59, 89, 365}

\* build_dim_date(start_date, end_date, connection) on an empty dim_date
CallBuildDimDate(start_date, end_date) ==
    /\ pc = "idle"
    /\ tx.dim_date = {}
    /\ LET new == NewDimDate(tx.dim_date, start_date, end_date)
       IN /\ tx' = [tx EXCEPT !.dim_date = @ \cup new]
          /\ call' = [fn |-> "build_dim_date", args |-> <<start_date, end_date>>,
                      returned |-> Cardinality(new)]
    /\ pc' = "returned"
    /\ UNCHANGED <<prodVars, today, wh, build_log, outcome, reportFile, whStart, dirty,
                   nBuilds, orchVars>>

\* build_dim_payment_method(connection)
CallBuildDimPaymentMethod ==
    /\ pc = "idle"
    /\ \E pick \in [NewPaymentIds(tx.dim_payment_method, stgTxn) -> PaymentCandidates(stgTxn)] :
        /\ \A id \in DOMAIN pick : pick[id].payment_method_id = id
        /\ LET new == NewDimPaymentMethod(tx.dim_payment_method, pick)
           IN /\ tx' = [tx EXCEPT !.dim_payment_method = @ \cup new]
              /\ call' = [fn |-> "build_dim_payment_method", args |-> <<>>,
                          returned |-> Cardinality(new)]
    /\ pc' = "returned"
    /\ UNCHANGED <<prodVars, today, wh, build_log, outcome, reportFile, whStart, dirty,
                   nBuilds, orchVars>>

\* the caller has the returned count
CallReturn ==
    /\ pc = "returned"
    /\ pc' = "idle"
    /\ call' = NoCall
    /\ UNCHANGED <<prodVars, today, wh, tx, build_log, outcome, reportFile, whStart,
                   dirty, nBuilds, orchVars>>

CallNext ==
    \/ \E S \in SUBSET (TxnIds \cup StagedOnlyTxnIds) : Ingest(S)
    \/ \E start_date \in RangeStarts : \E span \in 0 .. MaxSpan :
            CallBuildDimDate(start_date, start_date + span)
    \/ CallBuildDimPaymentMethod
    \/ CallReturn

CallSpec == Init /\ [][CallNext]_vars

\* ------------------- staging_to_production: the cleansing functions on a table
\* money is counted in half cents, so that price * 0.5 of a price in whole cents
\* is exact; a table is the sequence of its rows
DefaultPrice == 200

\* tables of at most n rows over a set of rows
TablesOf(rows, n) == UNION {[1 .. k -> rows] : k \in 0 .. n}

StagedItemRows ==
    [quantity : {0, 2}, unit_price : {100, 666}, discount_percentage : {-5, 15, 100, 150},
     line_total : {0, 1998}]

StagedProductRows ==
    [product_id : {"p1", "p2"}, price : {-200, 0, 200, 500}, cost : {-100, 0, 200, 600}]

\* Series.round(2) of n / 100 cents, n / 100 being in half cents: to the nearest
\* whole cent, a tie to the even one
RoundToCents(n) ==
    LET c == n \div 200
        r == n % 200
    IN IF r > 100 \/ (r = 100 /\ c % 2 = 1) THEN 2 * (c + 1) ELSE 2 * c

\* quantity * unit_price * (1 - discount_percentage / 100), rounded
LineTotal(r) == RoundToCents(r.quantity * r.unit_price * (100 - r.discount_percentage))

\* the discount filter without its upper limit
DiscountNotNegative(r) == r.discount_percentage >= 0

\* (df["discount_percentage"] >= 0) & (df["discount_percentage"] <= 100)
DiscountInRange(r) == r.discount_percentage >= 0 /\ r.discount_percentage <= 100

QuantityPositive(r) == r.quantity > 0

\* apply_business_rules(df, rule_type) for rule_type = 'transaction_item'; a table of
\* any other rule type modelled here is returned as it is
apply_business_rules(df, rule_type) ==
    IF rule_type = "transaction_item"
    THEN LET totalled == [k \in 1 .. Len(df) |-> [df[k] EXCEPT !.line_total = LineTotal(df[k])]]
             sold == SelectSeq(totalled, QuantityPositive)
         IN SelectSeq(sold, DiscountInRange)
    ELSE df

\* drop_duplicates(subset=["product_id"], keep="first").reset_index(drop=True)
DropDuplicates(df) ==
    LET keep == {k \in 1 .. Len(df) :
                    ~\E j \in 1 .. (k - 1) : df[j].product_id = df[k].product_id}
        F[k \in 0 .. Len(df)] ==
            IF k = 0 THEN <<>>
            ELSE IF k \in keep THEN Append(F[k - 1], df[k]) ELSE F[k - 1]
    IN F[Len(df)]

\* the price / cost fixes without the last one (cost >= price)
FixPriceAndCostOnly(r) ==
    LET priced == IF r.price <= 0 THEN [r EXCEPT !.price = DefaultPrice] ELSE r
    IN IF priced.cost < 0 THEN [priced EXCEPT !.cost = 0] ELSE priced

\* the three df.loc assignments on one row, in their order
FixPriceAndCost(r) ==
    LET priced == IF r.price <= 0 THEN [r EXCEPT !.price = DefaultPrice] ELSE r
        costed == IF priced.cost < 0 THEN [priced EXCEPT !.cost = 0] ELSE priced
    IN IF costed.cost >= costed.price
       THEN [costed EXCEPT !.cost = costed.price \div 2]
       ELSE costed

\* cleanse_product_data(df), on the columns product_id, price and cost
cleanse_product_data(df) ==
    LET unique == DropDuplicates(df)
    IN [k \in 1 .. Len(unique) |-> FixPriceAndCost(unique[k])]

CallApplyBusinessRules(df) ==
    /\ pc = "idle"
    /\ pc' = "returned"
    /\ call' = [fn |-> "apply_business_rules", args |-> <<df, "transaction_item">>,
                returned |-> apply_business_rules(df, "transaction_item")]
    /\ UNCHANGED <<prodVars, today, wh, tx, build_log, outcome, reportFile, whStart,
                   dirty, nBuilds, orchVars>>

CallCleanseProductData(df) ==
    /\ pc = "idle"
    /\ pc' = "returned"
    /\ call' = [fn |-> "cleanse_product_data", args |-> <<df>>,
                returned |-> cleanse_product_data(df)]
    /\ UNCHANGED <<prodVars, today, wh, tx, build_log, outcome, reportFile, whStart,
                   dirty, nBuilds, orchVars>>

CleanseNext ==
    \/ /\ pc = "idle"
       /\ \E df \in TablesOf(StagedItemRows, MaxRows) : CallApplyBusinessRules(df)
    \/ /\ pc = "idle"
       /\ \E df \in TablesOf(StagedProductRows, MaxRows) : CallCleanseProductData(df)
    \/ CallReturn

CleanseSpec == Init /\ [][CleanseNext]_vars

\* ------------------------------------------- pipeline_orchestrator.py
\* the steps of execute_pipeline, in the order of its calls of run_step
PipelineSteps ==
    <<"data_generation", "ingestion_to_staging", "data_quality_validation",
      "staging_to_production_transform", "warehouse_load">>

\* the tables staging_to_production.main loads, in its order
ProductionTables ==
    <<"production.customers", "production.products", "production.transactions",
      "production.transaction_items">>

\* the databases and the build of the warehouse stay as they are
warehouseVars == <<prodVars, today, buildVars, dirty>>

\* only a failed ingestion ends the pipeline
StopsPipelineIngestionOnly(step_name) == step_name = "ingestion_to_staging"

\* the steps after whose failure execute_pipeline saves the log and returns
StopsPipeline(step_name) ==
    step_name \in {"ingestion_to_staging", "staging_to_production_transform"}

\* the final status whatever the steps did
FinalStatusSuccess(ok) == "success"

\* "success" if all_success else "completed_with_warnings"
FinalStatus(ok) == IF ok THEN "success" ELSE "completed_with_warnings"

\* the except branch without the entry in errors
RecordFailureWithoutError(log, step_name) ==
    [log EXCEPT !.steps = Put(@, step_name, "failed")]

\* run_step, except branch: the step is recorded as failed, the message appended
RecordFailure(log, step_name) ==
    [log EXCEPT !.steps = Put(@, step_name, "failed"),
                !.errors = Append(@, step_name)]

\* run_step, try branch: the step is recorded as successful
RecordSuccess(log, step_name) ==
    [log EXCEPT !.steps = Put(@, step_name, "success")]

\* run_step(step_name, step_func) is entered and calls step_func
StartStep(k) ==
    /\ current' = k
    /\ started' = Append(started, PipelineSteps[k])
    /\ opc' = "run_step"
    /\ transform' = IF PipelineSteps[k] = "staging_to_production_transform"
                    THEN [pc |-> "read", results |-> <<>>, status |-> "none"]
                    ELSE transform

\* execute_pipeline is called on a new orchestrator
ExecutePipeline ==
    /\ opc = "new"
    /\ all_success' = TRUE
    /\ StartStep(1)
    /\ UNCHANGED <<warehouseVars, execution_log, run_step_results, saved_log, exit_code>>

\* staging_to_production.main: pd.read_sql of the next staging table
TransformRead ==
    /\ opc = "run_step"
    /\ transform.pc = "read"
    /\ transform' = [transform EXCEPT !.pc = "load"]
    /\ UNCHANGED <<warehouseVars, execution_log, all_success, opc, current, started,
                   run_step_results, saved_log, exit_code>>

\* the read fails at the store (at any table; after a failed load the transaction
\* may be one the store has aborted): the exception leaves main
TransformReadRaises ==
    /\ opc = "run_step"
    /\ transform.pc = "read"
    /\ transform' = [transform EXCEPT !.pc = "raising"]
    /\ UNCHANGED <<warehouseVars, execution_log, all_success, opc, current, started,
                   run_step_results, saved_log, exit_code>>

\* load_to_production: to_sql succeeds, or its exception is caught and reported
TransformLoad(status) ==
    /\ opc = "run_step"
    /\ transform.pc = "load"
    /\ LET table == ProductionTables[Len(transform.results) + 1]
           results == Append(transform.results, [table |-> table, status |-> status])
       IN transform' = [transform EXCEPT
                            !.results = results,
                            !.pc = IF Len(results) = Len(ProductionTables)
                                   THEN "summary" ELSE "read"]
    /\ UNCHANGED <<warehouseVars, execution_log, all_success, opc, current, started,
                   run_step_results, saved_log, exit_code>>

\* the summary is computed, written and returned
TransformSummary ==
    /\ opc = "run_step"
    /\ transform.pc = "summary"
    /\ transform' = [transform EXCEPT
                        !.pc = "returning",
                        !.status =
                            IF \A k \in 1 .. Len(transform.results) :
                                    transform.results[k].status = "success"
                            THEN "success" ELSE "partial"]
    /\ UNCHANGED <<warehouseVars, execution_log, all_success, opc, current, started,
                   run_step_results, saved_log, exit_code>>

\* the commit or the writing of transformation_summary.json fails
TransformSummaryRaises ==
    /\ opc = "run_step"
    /\ transform.pc = "summary"
    /\ transform' = [transform EXCEPT !.pc = "raising"]
    /\ UNCHANGED <<warehouseVars, execution_log, all_success, opc, current, started,
                   run_step_results, saved_log, exit_code>>

IsTransform == PipelineSteps[current] = "staging_to_production_transform"

\* step_func returns: run_step records the step and returns True
StepFunctionReturns ==
    /\ opc = "run_step"
    /\ IsTransform => transform.pc = "returning"
    /\ execution_log' = RecordSuccess(execution_log, PipelineSteps[current])
    /\ run_step_results' = Append(run_step_results, TRUE)
    /\ opc' = "after_step"
    /\ UNCHANGED <<warehouseVars, all_success, current, transform, started, saved_log,
                   exit_code>>

\* step_func raises an Exception: run_step records the failure and returns False
StepFunctionRaises ==
    /\ opc = "run_step"
    /\ IsTransform => transform.pc = "raising"
    /\ execution_log' = RecordFailure(execution_log, PipelineSteps[current])
    /\ run_step_results' = Append(run_step_results, FALSE)
    /\ opc' = "after_step"
    /\ UNCHANGED <<warehouseVars, all_success, current, transform, started, saved_log,
                   exit_code>>

\* execute_pipeline after a call of run_step that returned True
StepSucceeded ==
    /\ opc = "after_step"
    /\ run_step_results[Len(run_step_results)]
    /\ IF current < Len(PipelineSteps)
       THEN /\ StartStep(current + 1)
            /\ UNCHANGED <<execution_log, all_success>>
       ELSE /\ execution_log' = [execution_log EXCEPT
                                    !.pipeline_end = today,
                                    !.overall_status = FinalStatus(all_success)]
            /\ opc' = "saving"
            /\ UNCHANGED <<all_success, current, transform, started>>
    /\ UNCHANGED <<warehouseVars, run_step_results, saved_log, exit_code>>

\* execute_pipeline after a call of run_step that returned False
StepFailed ==
    /\ opc = "after_step"
    /\ ~run_step_results[Len(run_step_results)]
    /\ all_success' = FALSE
    /\ IF StopsPipeline(PipelineSteps[current])
       THEN /\ execution_log' = [execution_log EXCEPT !.overall_status = "failed"]
            /\ opc' = "saving"
            /\ UNCHANGED <<current, transform, started>>
       ELSE IF current < Len(PipelineSteps)
       THEN /\ StartStep(current + 1)
            /\ UNCHANGED execution_log
       ELSE /\ execution_log' = [execution_log EXCEPT
                                    !.pipeline_end = today,
                                    !.overall_status = FinalStatus(FALSE)]
            /\ opc' = "saving"
            /\ UNCHANGED <<current, transform, started>>
    /\ UNCHANGED <<warehouseVars, run_step_results, saved_log, exit_code>>

\* _save_execution_log writes the file; execute_pipeline returns the log
SaveExecutionLog ==
    /\ opc = "saving"
    /\ saved_log' = [state |-> "saved", log |-> execution_log]
    /\ opc' = "returned"
    /\ UNCHANGED <<warehouseVars, execution_log, all_success, current, transform, started,
                   run_step_results, exit_code>>

\* open or json.dump fails: the exception leaves execute_pipeline and main
SaveExecutionLogRaises ==
    /\ opc = "saving"
    /\ saved_log' = [saved_log EXCEPT !.state = "truncated"]
    /\ opc' = "crashed"
    /\ exit_code' = 1
    /\ UNCHANGED <<warehouseVars, execution_log, all_success, current, transform, started,
                   run_step_results>>

\* main: sys.exit(0 if result["overall_status"] == "success" else 1)
Exit ==
    /\ opc = "returned"
    /\ opc' = "exited"
    /\ exit_code' = IF execution_log.overall_status = "success" THEN 0 ELSE 1
    /\ UNCHANGED <<warehouseVars, execution_log, all_success, current, transform, started,
                   run_step_results, saved_log>>

PipelineNext ==
    \/ ExecutePipeline
    \/ TransformRead
    \/ TransformReadRaises
    \/ \E status \in {"success", "failed"} : TransformLoad(status)
    \/ TransformSummary
    \/ TransformSummaryRaises
    \/ StepFunctionReturns
    \/ StepFunctionRaises
    \/ StepSucceeded
    \/ StepFailed
    \/ SaveExecutionLog
    \/ SaveExecutionLogRaises
    \/ Exit

PipelineSpec == Init /\ [][PipelineNext]_vars

\* ================================================================ claims
BothTables == {wh, tx}

\* C1: after any sequence of builds and production changes, every business key
\* (customer_id, product_id) has at most one dimension row with is_current = TRUE,
\* in the committed tables and inside the open transaction.
C1_OneCurrentRowPerKey ==
    \A w \in BothTables :
        /\ \A c \in CustomerIds : Cardinality(CurrentCustomerRows(w.dim_customers, c)) <= 1
        /\ \A p \in ProductIds : Cardinality(CurrentProductRows(w.dim_products, p)) <= 1

\* a retired customer was reactivated in production and a further build was committed,
\* while another customer has a current row
C1_Witness ==
    /\ pc = "idle"
    /\ nBuilds >= 3
    /\ ~dirty
    /\ \E r \in wh.dim_customers : ~r.is_current /\ prodCust[r.customer_id] = "active"
    /\ \E r \in wh.dim_customers : r.is_current
    /\ \E r \in wh.dim_products : r.is_current

\* C2: fact_sales holds at most one row per line-item key item_id.
C2_OneFactRowPerItem ==
    \A i \in ItemIds : Cardinality({f \in wh.fact_sales : f.item_id = i}) <= 1

\* C3: once main has raised because of a store failure in a step of the build, every
\* warehouse table equals its state before the build started.
C3_FailedBuildCommitsNothing ==
    (pc = "done" /\ outcome.status = "raised" /\ outcome.cause = "store") => wh = whStart

\* the store failed after the build had inserted dimension, fact and aggregate rows
C3_Witness ==
    /\ pc = "done"
    /\ outcome.cause = "store"
    /\ tx.dim_customers # wh.dim_customers
    /\ tx.fact_sales # wh.fact_sales
    /\ tx.agg_product_sales # wh.agg_product_sales

CompleteReport(r) ==
    /\ r.warehouse_build_timestamp # NULL
    /\ DOMAIN r.dimensions_built =
            {"dim_customers", "dim_products", "dim_date", "dim_payment_method"}
    /\ DOMAIN r.fact_tables_built = {"fact_sales"}
    /\ DOMAIN r.aggregates_built =
            {"agg_daily_sales", "agg_product_sales", "agg_customer_lifetime"}
    /\ DOMAIN r.scd_updates = {"dim_customers", "dim_products"}

\* C4: every invocation of main ends either in success (effects committed, complete
\* report written and returned) or in abort (failure raised, no report returned or
\* written, no effect committed).
C4_SuccessOrAbort ==
    pc = "done" =>
        \/ /\ outcome.status = "success"
           /\ wh = tx
           /\ CompleteReport(outcome.returned)
           /\ reportFile = outcome.returned
        \/ /\ outcome.status = "raised"
           /\ wh = whStart
           /\ outcome.returned = EmptyLog
           /\ reportFile = EmptyLog

FactStep == pc = "fact_sales" /\ pc' = NextStep("fact_sales")

\* C5: every row build_fact_sales inserts has a customer_sk and a product_sk of
\* dimension rows that carry the business key of the line item's customer / product
\* and had is_current = TRUE when the row was inserted.
C5_FactRowsJoinCurrentRows ==
    [][FactStep =>
        \A f \in tx'.fact_sales \ tx.fact_sales :
            /\ \E dc \in tx.dim_customers :
                /\ dc.customer_sk = f.customer_sk
                /\ dc.customer_id = TxnRow[ItemRow[f.item_id].transaction_id].customer_id
                /\ dc.is_current
            /\ \E dp \in tx.dim_products :
                /\ dp.product_sk = f.product_sk
                /\ dp.product_id = ItemRow[f.item_id].product_id
                /\ dp.is_current]_vars

\* build_fact_sales has inserted rows while a retired customer's line items stay out
C5_Witness ==
    /\ pc = NextStep("fact_sales")
    /\ tx.fact_sales # wh.fact_sales
    /\ \E r \in tx.dim_customers :
        /\ ~r.is_current
        /\ \E i \in prodItems :
            /\ TxnRow[ItemRow[i].transaction_id].customer_id = r.customer_id
            /\ ~AlreadyLoaded(tx.fact_sales, i)

Committing == pc = "commit" /\ pc' = "report"

\* C6: a build that runs with production unchanged since the last committed build
\* inserts no dimension row and retires none: dim_customers and dim_products are
\* the same before and after it, and it reports zero rows for them.
C6_ScdRerunChangesNothing ==
    [][(Committing /\ outcome.rerun) =>
        /\ wh'.dim_customers = wh.dim_customers
        /\ wh'.dim_products = wh.dim_products
        /\ build_log.dimensions_built["dim_customers"] = 0
        /\ build_log.dimensions_built["dim_products"] = 0
        /\ build_log.scd_updates["dim_customers"].records_updated = 0
        /\ build_log.scd_updates["dim_products"].records_updated = 0]_vars

\* a second build was committed over unchanged production, with a current and a
\* retired customer in the dimension
C6_Witness ==
    /\ pc = "report"
    /\ outcome.rerun
    /\ \E r \in wh.dim_customers : r.is_current
    /\ \E r \in wh.dim_customers : ~r.is_current
    /\ wh.dim_products # {}

\* C7: a build that runs with production unchanged since the last committed build
\* appends no row to fact_sales.
C7_FactRerunAppendsNothing ==
    [][(Committing /\ outcome.rerun) =>
        /\ wh'.fact_sales = wh.fact_sales
        /\ build_log.fact_tables_built["fact_sales"] = 0]_vars

\* a second build was committed over unchanged production whose line items are loaded
C7_Witness ==
    /\ pc = "report"
    /\ outcome.rerun
    /\ {f.item_id : f \in wh.fact_sales} = ItemIds

\* the steps that build or maintain a dimension, and the aggregate steps
DimensionSteps ==
    {"dim_customers", "dim_products", "dim_date", "dim_payment_method",
     "scd_customers", "scd_products"}
AggregateSteps == {"agg_daily_sales", "agg_product_sales", "agg_customer_lifetime"}
Completed(s) == StepIndex(s) < StepIndex(pc)

\* C8: within a build every dimension step, retirement included, has completed when
\* build_fact_sales starts, and build_fact_sales has completed when an aggregate
\* step starts.
C8_DimensionsThenFactThenAggregates ==
    /\ pc = "fact_sales" => \A s \in DimensionSteps : Completed(s)
    /\ pc \in AggregateSteps => Completed("fact_sales")

\* C9: with no row in production.transactions the build skips the date dimension,
\* reports it with zero rows, adds no date row, and the customer and product
\* dimensions still take effect.
C9_EmptyRangeIsSkipped ==
    (pc = "done" /\ prodTxn = {} /\ outcome.cause \notin {"store", "io"}) =>
        /\ outcome.status = "success"
        /\ outcome.returned.dimensions_built["dim_date"] = 0
        /\ wh.dim_date = whStart.dim_date
        /\ \A c \in CustomerIds :
            prodCust[c] = "active" => \E r \in wh.dim_customers : r.customer_id = c
        /\ \A p \in ProductIds :
            prodProd[p] = "active" => \E r \in wh.dim_products : r.product_id = p

\* the effect of one retirement pass on a dimension table: the rows of hit are
\* retired as of day - 1, every other row is kept as it is, and no row is added
RetiredExactly(before, after, hit, day) ==
    /\ \A r \in before :
        IF r \in hit
        THEN [r EXCEPT !.is_current = FALSE, !.end_date = day - 1] \in after
        ELSE r \in after
    /\ Cardinality(after) = Cardinality(before)

InactiveCurrentCustomers ==
    {r \in tx.dim_customers : r.is_current /\ prodCust[r.customer_id] = "inactive"}
InactiveCurrentProducts ==
    {r \in tx.dim_products : r.is_current /\ prodProd[r.product_id] = "inactive"}

ItemsOfRetiredProduct ==
    {i \in prodItems :
        /\ ItemRow[i].transaction_id \in prodTxn
        /\ ~\E f \in tx.fact_sales : f.item_id = i
        /\ \E r \in tx.dim_products : r.product_id = ItemRow[i].product_id
        /\ \A r \in tx.dim_products : r.product_id = ItemRow[i].product_id => ~r.is_current}
ItemsOfRetiredCustomer ==
    {i \in prodItems :
        /\ ItemRow[i].transaction_id \in prodTxn
        /\ ~\E f \in tx.fact_sales : f.item_id = i
        /\ \E r \in tx.dim_customers :
                r.customer_id = TxnRow[ItemRow[i].transaction_id].customer_id
        /\ \A r \in tx.dim_customers :
                r.customer_id = TxnRow[ItemRow[i].transaction_id].customer_id => ~r.is_current}

\* C11: when build_fact_sales runs while a product's (customer's) dimension rows are
\* all retired, it completes and inserts none of the not-yet-loaded line items of
\* that product (customer) into fact_sales.
C11_RetiredEntityItemsExcluded ==
    [][FactStep =>
        \A i \in ItemsOfRetiredProduct \cup ItemsOfRetiredCustomer :
            ~\E f \in tx'.fact_sales : f.item_id = i]_vars

\* build_fact_sales has completed, inserting rows, while unloaded line items of a
\* retired product whose customer has a current row stayed out
C11_Witness ==
    /\ pc = NextStep("fact_sales")
    /\ \E i \in ItemsOfRetiredProduct :
            CurrentCustomerRows(tx.dim_customers,
                                TxnRow[ItemRow[i].transaction_id].customer_id) # {}
    /\ wh.fact_sales # {}

\* a freshly inserted version: current, effective today, open-ended
FreshVersion(r) == r.is_current /\ r.effective_date = today /\ r.end_date = NULL

\* C12: build_dim_customers / build_dim_products insert exactly one row (current,
\* effective today, end_date NULL) for each business key that is active in production
\* and has no row at all in the dimension, insert nothing for a key that has a row
\* (current or retired), leave every existing row as it is, and return the number
\* of rows inserted.
C12_InsertOnlyAbsentActiveKeys ==
    [][/\ (pc = "dim_customers" /\ pc' = NextStep("dim_customers")) =>
            LET new == tx'.dim_customers \ tx.dim_customers
            IN /\ tx.dim_customers \subseteq tx'.dim_customers
               /\ \A c \in CustomerIds :
                    LET rows == {r \in new : r.customer_id = c}
                    IN IF prodCust[c] = "active"
                          /\ ~\E r \in tx.dim_customers : r.customer_id = c
                       THEN Cardinality(rows) = 1 /\ \A r \in rows : FreshVersion(r)
                       ELSE rows = {}
               /\ build_log'.dimensions_built["dim_customers"] = Cardinality(new)
       /\ (pc = "dim_products" /\ pc' = NextStep("dim_products")) =>
            LET new == tx'.dim_products \ tx.dim_products
            IN /\ tx.dim_products \subseteq tx'.dim_products
               /\ \A p \in ProductIds :
                    LET rows == {r \in new : r.product_id = p}
                    IN IF prodProd[p] = "active"
                          /\ ~\E r \in tx.dim_products : r.product_id = p
                       THEN Cardinality(rows) = 1 /\ \A r \in rows : FreshVersion(r)
                       ELSE rows = {}
               /\ build_log'.dimensions_built["dim_products"] = Cardinality(new)]_vars

\* build_dim_customers has inserted a row for a new customer and none for a customer
\* who is active again in production and has only a retired row
C12_Witness ==
    /\ pc = NextStep("dim_customers")
    /\ tx.dim_customers # wh.dim_customers
    /\ \E r \in tx.dim_customers :
        /\ ~r.is_current
        /\ prodCust[r.customer_id] = "active"
        /\ \A q \in tx.dim_customers : q.customer_id = r.customer_id => q = r

\* the transaction dates production holds
TransactionDays == {TxnRow[t].transaction_date : t \in prodTxn}

\* C13: after any sequence of successful builds dim_date holds exactly one row per
\* calendar date between the minimum and the maximum transaction date, and never
\* two rows with the same date_id.
C13_OneDateRowPerDay ==
    /\ \A r, q \in wh.dim_date : r.date_id = q.date_id => r = q
    /\ (pc = "report" /\ prodTxn # {}) =>
            \A d \in Min(TransactionDays) .. Max(TransactionDays) :
                Cardinality({r \in wh.dim_date : r.date_id = d}) = 1

ItemsOfActiveEntities ==
    {i \in prodItems :
        /\ ItemRow[i].transaction_id \in prodTxn
        /\ prodCust[TxnRow[ItemRow[i].transaction_id].customer_id] = "active"
        /\ prodProd[ItemRow[i].product_id] = "active"}

\* C15: a line item left out of fact_sales for want of a current dimension row is
\* loaded by a later build once its customer and product are active in production,
\* also when the entity was deactivated, retired and reactivated: when a build has
\* committed, the customer and the product of every such line item have a current
\* dimension row and the line item is in fact_sales.
C15_DeferredItemsGetLoaded ==
    pc = "report" =>
        \A i \in ItemsOfActiveEntities :
            /\ CurrentCustomerRows(wh.dim_customers,
                                   TxnRow[ItemRow[i].transaction_id].customer_id) # {}
            /\ CurrentProductRows(wh.dim_products, ItemRow[i].product_id) # {}
            /\ \E f \in wh.fact_sales : f.item_id = i

\* the sum of a measure over fact rows, taken line item by line item from the
\* production line items the rows were loaded from
RECURSIVE MeasureOfItems(_, _, _)
MeasureOfItems(items, rows, field) ==
    IF items = {} THEN 0
    ELSE LET i == CHOOSE j \in items : TRUE
         IN ItemRow[i][field] * Cardinality({f \in rows : f.item_id = i})
            + MeasureOfItems(items \ {i}, rows, field)

DistinctTransactions(rows) ==
    Cardinality({t \in TxnIds : \E f \in rows : f.transaction_id = t})

\* two fact rows for one product, in distinct transactions
ExampleFactRows ==
    {[transaction_id |-> "t1", item_id |-> "i1", customer_sk |-> 1, product_sk |-> 7,
      date_sk |-> 1, payment_method_sk |-> NULL, quantity |-> 2, line_total |-> 30,
      transaction_total |-> 50],
     [transaction_id |-> "t2", item_id |-> "i2", customer_sk |-> 2, product_sk |-> 7,
      date_sk |-> 2, payment_method_sk |-> NULL, quantity |-> 1, line_total |-> 20,
      transaction_total |-> 20]}

AggregateStep(s) == pc = s /\ pc' = NextStep(s)

\* C16: every aggregate row a build inserts for a grouping key holds
\* total sales = SUM(line_total), total units = SUM(quantity) and transaction_count =
\* COUNT(DISTINCT transaction_id) over all fact_sales rows with that key at the moment
\* of insertion; two fact rows of one product in distinct transactions with line
\* totals 30 and 20 and quantities 2 and 1 give 50, 3 and 2.
C16_AggregatesAreSums ==
    /\ NewAggProductSales({}, ExampleFactRows) =
            {[product_sk |-> 7, total_sales |-> 50, total_units_sold |-> 3,
              transaction_count |-> 2]}
    /\ [][/\ AggregateStep("agg_daily_sales") =>
               \A a \in tx'.agg_daily_sales \ tx.agg_daily_sales :
                   LET rows == {f \in tx.fact_sales : f.date_sk = a.date_sk}
                   IN /\ rows # {}
                      /\ a.total_sales = MeasureOfItems(ItemIds, rows, "line_total")
                      /\ a.total_units_sold = MeasureOfItems(ItemIds, rows, "quantity")
                      /\ a.transaction_count = DistinctTransactions(rows)
          /\ AggregateStep("agg_product_sales") =>
               \A a \in tx'.agg_product_sales \ tx.agg_product_sales :
                   LET rows == {f \in tx.fact_sales : f.product_sk = a.product_sk}
                   IN /\ rows # {}
                      /\ a.total_sales = MeasureOfItems(ItemIds, rows, "line_total")
                      /\ a.total_units_sold = MeasureOfItems(ItemIds, rows, "quantity")
                      /\ a.transaction_count = DistinctTransactions(rows)
          /\ AggregateStep("agg_customer_lifetime") =>
               \A a \in tx'.agg_customer_lifetime \ tx.agg_customer_lifetime :
                   LET rows == {f \in tx.fact_sales : f.customer_sk = a.customer_sk}
                   IN /\ rows # {}
                      /\ a.total_spent = MeasureOfItems(ItemIds, rows, "line_total")
                      /\ a.total_units_purchased = MeasureOfItems(ItemIds, rows, "quantity")
                      /\ a.transaction_count = DistinctTransactions(rows)]_vars

\* build_agg_product_sales has inserted the row of a product with three fact rows
\* in two transactions
C16_Witness ==
    /\ pc = NextStep("agg_product_sales")
    /\ \E a \in tx.agg_product_sales \ wh.agg_product_sales :
        /\ Cardinality({f \in tx.fact_sales : f.product_sk = a.product_sk}) = 3
        /\ a.total_sales = 70
        /\ a.total_units_sold = 4
        /\ a.transaction_count = 2

OneRowPerGroupingKey(w) ==
    /\ \A a, b \in w.agg_daily_sales : a.date_sk = b.date_sk => a = b
    /\ \A a, b \in w.agg_product_sales : a.product_sk = b.product_sk => a = b
    /\ \A a, b \in w.agg_customer_lifetime : a.customer_sk = b.customer_sk => a = b

\* C17: each aggregate table holds at most one row per grouping key, and a committed
\* aggregate row is never changed or removed by a later build, also when fact rows for
\* its key have been added since.
C17_AggregateRowsAreKept ==
    [][/\ OneRowPerGroupingKey(wh') /\ OneRowPerGroupingKey(tx')
       /\ wh.agg_daily_sales \subseteq wh'.agg_daily_sales
       /\ wh.agg_product_sales \subseteq wh'.agg_product_sales
       /\ wh.agg_customer_lifetime \subseteq wh'.agg_customer_lifetime]_vars

\* a later build has committed more fact rows for a product whose aggregate row
\* was inserted by an earlier build
C17_Witness ==
    /\ pc = "report"
    /\ \E a \in wh.agg_product_sales \cap whStart.agg_product_sales :
        /\ {f \in wh.fact_sales : f.product_sk = a.product_sk}
                # {f \in whStart.fact_sales : f.product_sk = a.product_sk}
        /\ a.total_sales < SumOf({f \in wh.fact_sales : f.product_sk = a.product_sk},
                                 "line_total")

PaymentRun ==
    pc = "idle" /\ pc' = "returned" /\ call'.fn = "build_dim_payment_method"

\* C18: a run of build_dim_payment_method leaves every existing row as it is (same
\* key, name and category), adds exactly one row for each normalized id of the staged
\* labels that had no row, so that the table holds one row per id observed so far
\* and never two rows with one id, also when two labels of one run share an id.
C18_OnePaymentRowPerId ==
    [][PaymentRun =>
        LET before == tx.dim_payment_method
            after == tx'.dim_payment_method
            staged == {PaymentMethodId(TxnRow[t].payment_method) : t \in stgTxn}
        IN /\ before \subseteq after
           /\ {r.payment_method_id : r \in after}
                = {r.payment_method_id : r \in before} \cup staged
           /\ \A r, q \in after : r.payment_method_id = q.payment_method_id => r = q
           /\ call'.returned = Cardinality(after \ before)]_vars

\* a run with 'Net Banking' and 'net banking' staged together has added one row for
\* their id, named by the second label, next to a row of an earlier run
C18_Witness ==
    /\ pc = "returned"
    /\ call.fn = "build_dim_payment_method"
    /\ {"t2", "t3"} \subseteq stgTxn
    /\ call.returned = 1
    /\ Cardinality(tx.dim_payment_method) >= 2
    /\ \E r \in tx.dim_payment_method :
        /\ r.payment_method_name = NetBankingLowerCase
        /\ r.payment_method_sk = Max({q.payment_method_sk : q \in tx.dim_payment_method})

PayPal == <<"P", "a", "y", "P", "a", "l">>
KnownLabels ==
    {CreditCard, DebitCard, UPI, NetBanking, CashOnDelivery, NetBankingLowerCase, PayPal}

\* the id and the category the claim gives to a label, written out
ExpectedPaymentRow(label) ==
    CASE label = CreditCard ->
            [id |-> <<"c", "r", "e", "d", "i", "t", "_", "c", "a", "r", "d">>,
             category |-> "Card"]
      [] label = DebitCard ->
            [id |-> <<"d", "e", "b", "i", "t", "_", "c", "a", "r", "d">>,
             category |-> "Card"]
      [] label = UPI ->
            [id |-> <<"u", "p", "i">>, category |-> "Digital"]
      [] label = NetBanking ->
            [id |-> <<"n", "e", "t", "_", "b", "a", "n", "k", "i", "n", "g">>,
             category |-> "Digital"]
      [] label = CashOnDelivery ->
            [id |-> <<"c", "a", "s", "h", "_", "o", "n", "_",
                      "d", "e", "l", "i", "v", "e", "r", "y">>,
             category |-> "Cash"]
      [] label = NetBankingLowerCase ->
            [id |-> <<"n", "e", "t", "_", "b", "a", "n", "k", "i", "n", "g">>,
             category |-> "Other"]
      [] OTHER ->
            [id |-> <<"p", "a", "y", "p", "a", "l">>, category |-> "Other"]

\* C19: the payment-method row derived from a raw label has id = the label in lower
\* case with each space replaced by '_' and category Card for 'Credit Card' and
\* 'Debit Card', Digital for 'UPI' and 'Net Banking', Cash for 'Cash on Delivery',
\* Other for any other label: for every label, every candidate row of the staged
\* transactions and every row of dim_payment_method.
C19_PaymentRowFromLabel ==
    /\ \A label \in KnownLabels :
        /\ PaymentMethodId(label) = ExpectedPaymentRow(label).id
        /\ PaymentCategory(label) = ExpectedPaymentRow(label).category
    /\ \A r \in PaymentCandidates(stgTxn) \cup
                {[payment_method_id |-> q.payment_method_id,
                  payment_method_name |-> q.payment_method_name,
                  category |-> q.category] : q \in tx.dim_payment_method} :
        /\ r.payment_method_name \in KnownLabels
        /\ r.payment_method_id = ExpectedPaymentRow(r.payment_method_name).id
        /\ r.category = ExpectedPaymentRow(r.payment_method_name).category

\* build_dim_payment_method has written the rows of 'Net Banking' and
\* 'Cash on Delivery'
C19_Witness ==
    /\ pc = "returned"
    /\ \E r \in tx.dim_payment_method :
        r.payment_method_name = NetBanking /\ r.category = "Digital"
    /\ \E r \in tx.dim_payment_method :
        r.payment_method_name = CashOnDelivery /\ r.category = "Cash"

\* the least q with month <= 3 * q
QuarterOfMonth(m) == CHOOSE q \in 1 .. 4 : 3 * (q - 1) < m /\ m <= 3 * q

\* the weekday (1 = Monday) of 2024-01-01, 2024-02-28, 2024-03-29 and 2024-12-30
WeekdayOfRangeStart == [d \in RangeStarts |-> CASE d = 59 -> 3 [] d = 89 -> 5 [] OTHER -> 1]

\* C20: build_dim_date(start, end) with start <= end produces exactly one row per
\* day of [start, end] and returns their number; on each row day_of_week is in 1..7
\* with 1 = Monday, is_weekend is true exactly for day_of_week 6 and 7, and
\* quarter = ceil(month / 3); [2024-01-01, 2024-01-03] gives 3 rows with
\* day_of_week 1, 2, 3 and is_weekend false.
C20_DateRowsPerDay ==
    (pc = "returned" /\ call.fn = "build_dim_date") =>
        LET start_date == call.args[1]
            end_date == call.args[2]
            rows == tx.dim_date
        IN /\ \A d \in start_date .. end_date :
                Cardinality({r \in rows : r.date_id = d}) = 1
           /\ \A r \in rows : r.date_id \in start_date .. end_date
           /\ call.returned = end_date - start_date + 1
           /\ call.returned = Cardinality(rows)
           /\ \A r \in rows :
                /\ r.day_of_week \in 1 .. 7
                /\ r.day_of_week =
                        ((WeekdayOfRangeStart[start_date] - 1 + (r.date_id - start_date)) % 7) + 1
                /\ r.is_weekend <=> r.day_of_week \in {6, 7}
                /\ r.quarter = QuarterOfMonth(r.month)
           /\ (start_date = 1 /\ end_date = 3) =>
                /\ Cardinality(rows) = 3
                /\ \A r \in rows : r.day_of_week = r.date_id /\ ~r.is_weekend
                /\ {r.day_of_week : r \in rows} = {1, 2, 3}

\* build_dim_date has returned from the range [2024-01-01, 2024-01-03]
C20_Witness ==
    /\ pc = "returned"
    /\ call.fn = "build_dim_date"
    /\ call.args = <<1, 3>>
    /\ call.returned = 3

\* the line items build_fact_sales can resolve: not loaded, with a current customer
\* row, a current product row and a date row
ResolvableItems ==
    {i \in prodItems :
        /\ ItemRow[i].transaction_id \in prodTxn
        /\ ~\E f \in tx.fact_sales : f.item_id = i
        /\ \E r \in tx.dim_customers :
                r.is_current /\ r.customer_id = TxnRow[ItemRow[i].transaction_id].customer_id
        /\ \E r \in tx.dim_products : r.is_current /\ r.product_id = ItemRow[i].product_id
        /\ \E r \in tx.dim_date :
                r.date_id = TxnRow[ItemRow[i].transaction_id].transaction_date}

HasPaymentRow(i) ==
    \E r \in tx.dim_payment_method :
        r.payment_method_id =
            ExpectedPaymentRow(TxnRow[ItemRow[i].transaction_id].payment_method).id

\* C21: build_fact_sales inserts every resolvable line item also when no
\* dim_payment_method row matches its normalized label; the inserted row then has a
\* NULL payment_method_sk, and the statement completes.
C21_MissingPaymentMethodTolerated ==
    [][FactStep =>
        \A i \in ResolvableItems :
            LET new == {f \in tx'.fact_sales \ tx.fact_sales : f.item_id = i}
            IN /\ new # {}
               /\ ~HasPaymentRow(i) => \A f \in new : f.payment_method_sk = NULL
               /\ HasPaymentRow(i) => \A f \in new : f.payment_method_sk # NULL]_vars

\* build_fact_sales has inserted a row without payment method
C21_Witness ==
    /\ pc = NextStep("fact_sales")
    /\ tx.dim_payment_method = {}
    /\ \E f \in tx.fact_sales \ wh.fact_sales : f.payment_method_sk = NULL

\* every row of before is in after with the same surrogate and business key
CustomerRowsKept(before, after) ==
    \A r \in before : \E q \in after :
        q.customer_sk = r.customer_sk /\ q.customer_id = r.customer_id
ProductRowsKept(before, after) ==
    \A r \in before : \E q \in after :
        q.product_sk = r.product_sk /\ q.product_id = r.product_id

\* C22: no build deletes a row of dim_customers or dim_products, and no build
\* updates or deletes a row of fact_sales: in the committed tables, and from
\* statement to statement inside a build.
C22_NoDeletes ==
    [][/\ CustomerRowsKept(wh.dim_customers, wh'.dim_customers)
       /\ ProductRowsKept(wh.dim_products, wh'.dim_products)
       /\ wh.fact_sales \subseteq wh'.fact_sales
       /\ (pc \in StoreSteps /\ pc' \in StoreSteps \cup {"report"}) =>
            /\ CustomerRowsKept(tx.dim_customers, tx'.dim_customers)
            /\ ProductRowsKept(tx.dim_products, tx'.dim_products)
            /\ tx.fact_sales \subseteq tx'.fact_sales]_vars

\* a build has committed the retirement of a customer row while fact rows of
\* earlier builds exist
C22_Witness ==
    /\ pc = "report"
    /\ whStart.fact_sales # {}
    /\ \E r \in wh.dim_customers \ whStart.dim_customers : ~r.is_current

\* C29: in dim_customers and dim_products every retired row has
\* end_date >= effective_date, also a row created and retired on the same day.
C29_ValidityNeverNegative ==
    /\ \A r \in wh.dim_customers : ~r.is_current => r.end_date >= r.effective_date
    /\ \A r \in wh.dim_products : ~r.is_current => r.end_date >= r.effective_date

\* C30: after every successful build each row of fact_sales has a row in
\* agg_daily_sales for its date_sk, in agg_product_sales for its product_sk and in
\* agg_customer_lifetime for its customer_sk.
C30_FactRowsCoveredByRollups ==
    pc = "report" =>
        \A f \in wh.fact_sales :
            /\ \E a \in wh.agg_daily_sales : a.date_sk = f.date_sk
            /\ \E a \in wh.agg_product_sales : a.product_sk = f.product_sk
            /\ \E a \in wh.agg_customer_lifetime : a.customer_sk = f.customer_sk

\* a build has committed new fact rows next to those of an earlier build
C30_Witness ==
    /\ pc = "report"
    /\ whStart.fact_sales # {}
    /\ wh.fact_sales # whStart.fact_sales

\* the positions of the rows of a table of line items that pass both rules
PassingRows(df) ==
    {k \in 1 .. Len(df) :
        /\ df[k].quantity > 0
        /\ df[k].discount_percentage >= 0
        /\ df[k].discount_percentage <= 100}

\* result holds the rows of df at the positions of keep, in their order, each
\* changed at most in the columns of free
Selects(df, result, keep, free) ==
    /\ Len(result) = Cardinality(keep)
    /\ \A k \in keep :
        LET n == Cardinality({j \in keep : j <= k})
        IN \A col \in DOMAIN df[k] \ free : result[n][col] = df[k][col]

\* C23: apply_business_rules(df, 'transaction_item') returns exactly the input rows
\* with quantity > 0 and 0 <= discount_percentage <= 100, in their input order, and
\* each returned row has line_total = quantity * unit_price *
\* (1 - discount_percentage / 100) rounded to the nearest cent, whatever line_total
\* the input row had.
C23_BusinessRulesOnItems ==
    (pc = "returned" /\ call.fn = "apply_business_rules") =>
        LET df == call.args[1]
            result == call.returned
        IN /\ Selects(df, result, PassingRows(df), {"line_total"})
           /\ \A n \in 1 .. Len(result) :
                LET exact == result[n].quantity * result[n].unit_price
                                * (100 - result[n].discount_percentage)
                    diff == 100 * result[n].line_total - exact
                IN /\ result[n].line_total % 2 = 0
                   /\ diff <= 100 /\ -diff <= 100

\* apply_business_rules has dropped the first of two rows for its discount of 150
\* and has recomputed the line_total of the second
C23_Witness ==
    /\ pc = "returned"
    /\ call.fn = "apply_business_rules"
    /\ Len(call.args[1]) = 2
    /\ call.args[1][1].quantity = 2 /\ call.args[1][1].discount_percentage = 150
    /\ Len(call.returned) = 1
    /\ call.args[1][2].line_total = 1998
    /\ call.returned[1].line_total # 1998

\* the positions of the first row of each product_id
FirstOfProduct(df) ==
    {k \in 1 .. Len(df) : \A j \in 1 .. Len(df) : df[j].product_id = df[k].product_id => k <= j}

\* C24: every row returned by cleanse_product_data has price > 0, cost >= 0 and
\* cost < price, and the result holds exactly one row per distinct product_id, the
\* first one in input order.
C24_CleansedProducts ==
    (pc = "returned" /\ call.fn = "cleanse_product_data") =>
        LET df == call.args[1]
            result == call.returned
        IN /\ \A n \in 1 .. Len(result) :
                /\ result[n].price > 0
                /\ result[n].cost >= 0
                /\ result[n].cost < result[n].price
           /\ Selects(df, result, FirstOfProduct(df), {"price", "cost"})
           /\ \A k \in FirstOfProduct(df) :
                LET n == Cardinality({j \in FirstOfProduct(df) : j <= k})
                IN /\ df[k].price > 0 => result[n].price = df[k].price
                   /\ (df[k].cost >= 0 /\ df[k].cost < result[n].price)
                        => result[n].cost = df[k].cost

\* cleanse_product_data has kept the first of two rows of one product and has
\* halved its cost, which exceeded the price
C24_Witness ==
    /\ pc = "returned"
    /\ call.fn = "cleanse_product_data"
    /\ Len(call.args[1]) = 2
    /\ call.args[1][1].product_id = call.args[1][2].product_id
    /\ call.args[1][1] = [product_id |-> "p1", price |-> 500, cost |-> 600]
    /\ call.returned = <<[product_id |-> "p1", price |-> 500, cost |-> 250]>>

\* ---------------------------------------------------------------- C25
Recorded(step_name, status) ==
    /\ step_name \in DOMAIN execution_log.steps
    /\ execution_log.steps[step_name] = status

\* execute_pipeline has left its sequence of steps
PipelineOver == opc \in {"saving", "returned", "exited", "crashed"}

\* C25: the steps are started only in the order data_generation,
\* ingestion_to_staging, data_quality_validation,
\* staging_to_production_transform, warehouse_load, each at most once; after a
\* failed ingestion no later step is started and overall_status is "failed";
\* after a failed transformation warehouse_load is not started and
\* overall_status is "failed"; after a failed data_generation or
\* data_quality_validation the next step is started.
C25_StepsInOrderAndStops ==
    /\ [](/\ Len(started) <= Len(PipelineSteps)
          /\ \A k \in 1 .. Len(started) : started[k] = PipelineSteps[k]
          /\ Recorded("ingestion_to_staging", "failed")
                => /\ Len(started) = 2
                   /\ PipelineOver => execution_log.overall_status = "failed"
          /\ Recorded("staging_to_production_transform", "failed")
                => /\ Len(started) = 4
                   /\ PipelineOver => execution_log.overall_status = "failed")
    /\ [][/\ opc = "after_step"
          /\ PipelineSteps[current] \in {"data_generation", "data_quality_validation"}
          /\ Recorded(PipelineSteps[current], "failed")
          => started' = Append(started, PipelineSteps[current + 1])]_vars

\* generation and validation failed, the run went on, and stopped at the failed
\* transformation
C25_Witness ==
    /\ opc = "exited"
    /\ Recorded("data_generation", "failed")
    /\ Recorded("data_quality_validation", "failed")
    /\ Recorded("staging_to_production_transform", "failed")
    /\ started = SubSeq(PipelineSteps, 1, 4)
    /\ execution_log.overall_status = "failed"

\* ---------------------------------------------------------------- C26
AllStepsSucceeded == \A k \in 1 .. Len(PipelineSteps) : Recorded(PipelineSteps[k], "success")

IngestionOrTransformFailed ==
    \/ Recorded("ingestion_to_staging", "failed")
    \/ Recorded("staging_to_production_transform", "failed")

\* C26: when execute_pipeline has returned, overall_status is not "pending":
\* it is "success" exactly when all five steps are recorded with status
\* "success", "failed" exactly when ingestion or transformation failed, and
\* "completed_with_warnings" otherwise; the execution log has been saved as
\* it is returned; and the exit code is 0 exactly when overall_status is
\* "success".
C26_StatusAtReturn ==
    opc \in {"returned", "exited"}
        => /\ execution_log.overall_status # "pending"
           /\ execution_log.overall_status = "success" <=> AllStepsSucceeded
           /\ execution_log.overall_status = "failed" <=> IngestionOrTransformFailed
           /\ execution_log.overall_status = "completed_with_warnings"
                <=> ~AllStepsSucceeded /\ ~IngestionOrTransformFailed
           /\ saved_log = [state |-> "saved", log |-> execution_log]
           /\ opc = "exited"
                => (exit_code = 0 <=> execution_log.overall_status = "success")

\* all five steps ran, the warehouse load failed, the process exited with 1
C26_Witness ==
    /\ opc = "exited"
    /\ Len(started) = Len(PipelineSteps)
    /\ Recorded("warehouse_load", "failed")
    /\ execution_log.overall_status = "completed_with_warnings"
    /\ saved_log.state = "saved"
    /\ exit_code = 1

\* ---------------------------------------------------------------- C27
\* a call of load_to_production reported status "failed"
SomeLoadFailed ==
    \E k \in 1 .. Len(transform.results) : transform.results[k].status = "failed"

WarehouseLoadStarted == \E k \in 1 .. Len(started) : started[k] = "warehouse_load"

\* C27: in an execution in which load_to_production failed for one of the four
\* production tables (summary transformation_status "partial"), the
\* transformation step is not recorded as successful and warehouse_load is
\* never started.
C27_NoWarehouseLoadAfterFailedLoad ==
    SomeLoadFailed
        => /\ ~Recorded("staging_to_production_transform", "success")
           /\ ~WarehouseLoadStarted

\* ---------------------------------------------------------------- C28
\* the calls of run_step that returned False
FalseReturns == {k \in 1 .. Len(run_step_results) : ~run_step_results[k]}

\* C28: every call of run_step returns, whether the step function returned or
\* raised: True with the step recorded as "success", False with the step
\* recorded as "failed"; and the number of entries of errors is the number of
\* calls that returned False.
C28_RunStepContainsFailures ==
    /\ Len(run_step_results) = IF opc = "run_step" THEN Len(started) - 1 ELSE Len(started)
    /\ \A k \in 1 .. Len(run_step_results) :
            Recorded(started[k], IF run_step_results[k] THEN "success" ELSE "failed")
    /\ Len(execution_log.errors) = Cardinality(FalseReturns)

\* two step functions raised and one returned; the next step has been started
C28_Witness ==
    /\ Cardinality(FalseReturns) = 2
    /\ \E k \in 1 .. Len(run_step_results) : run_step_results[k]
    /\ Len(execution_log.errors) = 2
    /\ opc = "run_step"

====
